---- MODULE Spec2Model ----
(***************************************************************************)
(* Model of the AgriSense dashboard front end (React).                     *)
(*                                                                         *)
(* DashboardPage: the grid/alert poll loop (fetchData, the mount effect    *)
(* and its cleanup) and handleAcknowledge, interleaved with the backend    *)
(* that answers the requests.  Every await of the source is a suspension   *)
(* point: a request is dispatched by one action, answered by a backend     *)
(* action, and its continuation (the code after the await, or the catch    *)
(* block) is a third action.                                               *)
(*                                                                         *)
(* CalibrationPage (the form, the derived grid, handleSubmit), GridCell    *)
(* (getColor), UploadForm (validation, form data, the upload and its       *)
(* outcome) and the rendering of the probability lists each have their     *)
(* own specification over their own variables: CalSpec, ColorSpec,         *)
(* UplSpec and ProbsSpec.  DiseaseAnalysisPage (select, analyse) is        *)
(* DisSpec, and App (fetchConfig, the loading gate, the routes) is         *)
(* AppSpec, which carries the fairness its liveness property needs.        *)
(***************************************************************************)
EXTENDS Integers, Sequences, FiniteSets, TLC

\* ---------------------------------------------------------------- bounds
MaxPolls == 2      \* fetchData invocations awaiting their responses
MaxAcks == 1       \* handleAcknowledge invocations awaiting their response
MaxDim == 3        \* largest length typed into the calibration form, in half metres
MaxUploads == 2    \* submit events of the upload form that pass its validation
MaxAnalyses == 3   \* analyses started on the disease analysis page
MaxConfigCalls == 3 \* fetchConfig calls: the mount effect and onConfigured
MaxPosts == 1      \* POST /config calls dispatched from the calibration form

\* The scenario: a grid of two sensors, 7 and 8, in zone-index order, and
\* one alert, 42, that the backend may raise for sensor 7.
SensorIds == <<7, 8>>
AlertIds == {42}

VARIABLES
    phase,        \* "rendered" (useState ran), "mounted" (effect ran), "unmounted"
    timer,        \* TRUE while the setInterval registration is live
    grid,         \* useState grid: sequence of cells
    alerts,       \* useState alerts: sequence of alert records
    polls,        \* fetchData invocations in flight, in dispatch order
    acks,         \* handleAcknowledge invocations in flight, in dispatch order
    srvAlerts,    \* backend: alert id -> "none" | "active" | "acked"
    stale,        \* history: how many polls at the head of polls were dispatched
                  \* before a poll that has been applied already
    ackedOk,      \* history: alert ids whose acknowledge success handler has run
    lastOp,       \* history: the last step (see Step)
    cal,          \* CalibrationPage: the form, submitting, error and the
                  \* POST /config calls dispatched so far
    upl,          \* UploadForm: zoneId, file, fields, loading, result, error,
                  \* the upload in flight and the uploads dispatched so far
    cell,         \* FieldGrid: the cell handed to getColor
    color,        \* FieldGrid: the class getColor returned for it ("" before)
    entries,      \* all_probs_json as the backend listed it: <<label, prob>>
    rendered,     \* the rows of the probability list as rendered (<<>> before)
    dis,          \* DiseaseAnalysisPage: images, selected, result, analyzing, the
                  \* requests in flight
    app           \* App: config, loading, the fetchConfig calls in flight, the
                  \* route

\* The state of the pages other than the dashboard.
pages == <<cal, upl, cell, color, entries, rendered, dis, app>>

vars == <<phase, timer, grid, alerts, polls, acks, srvAlerts, stale, ackedOk, lastOp,
          cal, upl, cell, color, entries, rendered, dis, app>>

\* ------------------------------------------------------------- responses
\* A request in flight: not answered yet, or answered with the response on
\* its way.  A request can fail at any moment before its response is
\* delivered; the failure is delivered at once (see the catch actions).
Pending == [st |-> "pending", data |-> <<>>]
Ok(d) == [st |-> "ok", data |-> d]

\* The record of a step: the operation, the alert id it is about (0 when
\* none), a flag (fetchDataThen: the applied poll was superseded;
\* acknowledge continuations: the alert state was replaced while the call
\* was in flight), the state of the promise the async function returned
\* ("" while it has not settled) and the console.error message ("" if none).
Step(op, id, flag, promise, error) ==
    [op |-> op, id |-> id, flag |-> flag, promise |-> promise, error |-> error]

Backend == Step("backend", 0, FALSE, "", "")

RemoveAt(s, i) == [k \in 1..(Len(s) - 1) |-> IF k < i THEN s[k] ELSE s[k + 1]]

\* ------------------------------------------------------------- backend
\* The sensor an alert belongs to.
AlertSensor(a) == SensorIds[1]

\* GET /alerts?acknowledged=false : the unacknowledged alerts, by id.
RECURSIVE ActiveOf(_, _)
ActiveOf(s, ids) ==
    IF ids = {} THEN <<>>
    ELSE LET a == CHOOSE x \in ids : \A y \in ids : x <= y
             rest == ActiveOf(s, ids \ {a})
         IN IF s[a] = "active"
            THEN <<[id |-> a, sensor_id |-> AlertSensor(a), acknowledged |-> FALSE]>> \o rest
            ELSE rest

ServerAlerts(s) == ActiveOf(s, AlertIds)

\* GET /dashboard/grid : one cell per sensor, by zone index; has_alert is
\* set by the backend from its unacknowledged alerts.
ServerGrid(s) ==
    [z \in 1..Len(SensorIds) |->
        [sensor_id |-> SensorIds[z],
         has_alert |-> \E a \in AlertIds : s[a] = "active" /\ AlertSensor(a) = SensorIds[z]]]

\* The backend raises an alert (threshold or model derived).
RaiseAlert(a) ==
    /\ srvAlerts[a] = "none"
    /\ srvAlerts' = [srvAlerts EXCEPT ![a] = "active"]
    /\ UNCHANGED pages
    /\ lastOp' = Backend
    /\ UNCHANGED <<phase, timer, grid, alerts, polls, acks, stale, ackedOk>>

\* The backend answers the grid request of poll i.
ServeGrid(i) ==
    /\ i \in 1..Len(polls)
    /\ polls[i].grid.st = "pending"
    /\ polls' = [polls EXCEPT ![i].grid = Ok(ServerGrid(srvAlerts))]
    /\ UNCHANGED pages
    /\ lastOp' = Backend
    /\ UNCHANGED <<phase, timer, grid, alerts, acks, srvAlerts, stale, ackedOk>>

\* The backend answers the alerts request of poll i.
ServeAlerts(i) ==
    /\ i \in 1..Len(polls)
    /\ polls[i].alerts.st = "pending"
    /\ polls' = [polls EXCEPT ![i].alerts = Ok(ServerAlerts(srvAlerts))]
    /\ UNCHANGED pages
    /\ lastOp' = Backend
    /\ UNCHANGED <<phase, timer, grid, alerts, acks, srvAlerts, stale, ackedOk>>

\* PUT /alerts/{id}/acknowledge : marks an active alert acknowledged; an
\* alert that is not active is an error.
ServeAck(j) ==
    /\ j \in 1..Len(acks)
    /\ acks[j].st = "pending"
    /\ IF srvAlerts[acks[j].id] = "active"
       THEN /\ srvAlerts' = [srvAlerts EXCEPT ![acks[j].id] = "acked"]
            /\ acks' = [acks EXCEPT ![j].st = "ok"]
       ELSE /\ srvAlerts' = srvAlerts
            /\ acks' = [acks EXCEPT ![j].st = "fail"]
    /\ UNCHANGED pages
    /\ lastOp' = Backend
    /\ UNCHANGED <<phase, timer, grid, alerts, polls, stale, ackedOk>>

\* ---------------------------------------------------------- DashboardPage
\* const [grid, setGrid] = useState([]); const [alerts, setAlerts] = useState([])
DashInit ==
    /\ phase = "rendered"
    /\ timer = FALSE
    /\ grid = <<>>
    /\ alerts = <<>>
    /\ polls = <<>>
    /\ acks = <<>>
    /\ srvAlerts = [a \in AlertIds |-> "none"]
    /\ stale = 0
    /\ ackedOk = {}
    /\ lastOp = Step("init", 0, FALSE, "", "")

\* ------------------------------------------------- the other pages' state
\* Lengths are kept in half metres, the step of the three number inputs
\* (step="0.5"): 8 m is 16.  Quotients of two such values are exact in
\* floating point, so Math.ceil sees the exact quotient.
Unit == 2

\* const [form, setForm] = useState({ field_width: 8, field_height: 14,
\*   sensor_spacing: 2, crop_type: 'Corn', region: '' })
\* plus submitting, error; post is the POST /config in flight ("" when none,
\* "sent" while awaited), posts the number of calls dispatched so far (texts
\* are sequences of characters), away is TRUE
\* once navigate('/') left the page.
CalInit ==
    cal = [form |-> [field_width |-> 8 * Unit, field_height |-> 14 * Unit,
                     sensor_spacing |-> 2 * Unit, crop_type |-> "Corn", region |-> <<>>],
           submitting |-> FALSE, error |-> "", post |-> "", posts |-> 0,
           away |-> FALSE]

\* UploadForm: sensors, zoneId, file, fields, loading, result, error; sensorsReq
\* is the GET /sensors of the mount effect, upload the POST /drone/upload in
\* flight (<<>> when none, else its form data), uploads the number of
\* uploads dispatched so far, submits the number of submit events that passed
\* validation, flightFetches the number of onUploaded() calls.
NoFile == ""
NoResult == [prediction |-> "", confidence |-> 0]
UplInit ==
    upl = [sensorsReq |-> "sent", sensors |-> <<>>, zoneId |-> "", file |-> NoFile,
           fields |-> [n |-> "", p |-> "", k |-> "", soil_moisture |-> ""],
           loading |-> FALSE, result |-> NoResult, error |-> "",
           upload |-> <<>>, uploads |-> 0, submits |-> 0, flightFetches |-> 0]

\* FieldGrid and the probability lists before anything is rendered.
NoCell == [status |-> "active", latest_prediction |-> ""]
ViewInit ==
    /\ cell = NoCell
    /\ color = ""
    /\ entries = <<>>
    /\ rendered = <<>>

\* DiseaseAnalysisPage: images (<<>> until loaded), selected and result
\* (0 for null; a result is known by the image it analysed), analyzing;
\* imagesReq is the GET of the mount effect, analysis the POST
\* /analysis/disease in flight (<<>> when none, else the image id it was
\* sent with), analyses the number of them dispatched so far.
DisInit ==
    dis = [imagesReq |-> "sent", images |-> <<>>, selected |-> 0, result |-> 0,
           analyzing |-> FALSE, analysis |-> <<>>, analyses |-> 0]

\* App: const [config, setConfig] = useState(null); loading starts true.
\* config is "" for null; fetches is the number of fetchConfig calls in
\* flight, calls the number made so far; the mount effect has not run yet.
AppInit ==
    app = [config |-> "", loading |-> TRUE, fetches |-> 0, calls |-> 0,
           path |-> "/", mounted |-> FALSE]

Init == DashInit /\ CalInit /\ UplInit /\ ViewInit /\ DisInit /\ AppInit

\* An in-flight acknowledge is touched when the alert state is replaced
\* by something else than its own continuation.
Touch(as) == [k \in 1..Len(as) |-> [as[k] EXCEPT !.touched = TRUE]]

\* fetchData up to its await: both GETs are dispatched together.
fetchData == Append(polls, [grid |-> Pending, alerts |-> Pending])

\* useEffect(() => { fetchData(); setInterval(fetchData, 10000); ... }, [])
useEffectMount ==
    /\ phase = "rendered"
    /\ phase' = "mounted"
    /\ polls' = fetchData
    /\ timer' = TRUE
    /\ UNCHANGED pages
    /\ lastOp' = Step("useEffectMount", 0, FALSE, "", "")
    /\ UNCHANGED <<grid, alerts, acks, srvAlerts, stale, ackedOk>>

\* The interval elapses: setInterval calls fetchData, whatever is in flight.
intervalTick ==
    /\ timer
    /\ Len(polls) < MaxPolls
    /\ polls' = fetchData
    /\ UNCHANGED pages
    /\ lastOp' = Step("intervalTick", 0, FALSE, "", "")
    /\ UNCHANGED <<phase, timer, grid, alerts, acks, srvAlerts, stale, ackedOk>>

\* The effect's cleanup: return () => clearInterval(interval)
useEffectCleanup ==
    /\ phase = "mounted"
    /\ phase' = "unmounted"
    /\ timer' = FALSE
    /\ UNCHANGED pages
    /\ lastOp' = Step("useEffectCleanup", 0, FALSE, "", "")
    /\ UNCHANGED <<grid, alerts, polls, acks, srvAlerts, stale, ackedOk>>

\* The grid applied as soon as its own response is there, the alerts left.
fetchDataThen_GridOnly(i) ==
    /\ i \in 1..Len(polls)
    /\ polls[i].grid.st = "ok"
    /\ grid' = polls[i].grid.data
    /\ polls' = RemoveAt(polls, i)
    /\ stale' = IF i <= stale THEN stale - 1 ELSE i - 1
    /\ acks' = Touch(acks)
    /\ UNCHANGED pages
    /\ lastOp' = Step("fetchDataThen", 0, i <= stale, "fulfilled", "")
    /\ UNCHANGED <<phase, timer, alerts, srvAlerts, ackedOk>>

\* fetchData after its await, Promise.all fulfilled:
\* setGrid(gridRes.data); setAlerts(alertsRes.data)
fetchDataThen(i) ==
    /\ i \in 1..Len(polls)
    /\ polls[i].grid.st = "ok"
    /\ polls[i].alerts.st = "ok"
    /\ grid' = polls[i].grid.data
    /\ alerts' = polls[i].alerts.data
    /\ polls' = RemoveAt(polls, i)
    /\ stale' = IF i <= stale THEN stale - 1 ELSE i - 1
    /\ acks' = Touch(acks)
    /\ UNCHANGED pages
    /\ lastOp' = Step("fetchDataThen", 0, i <= stale, "fulfilled", "")
    /\ UNCHANGED <<phase, timer, srvAlerts, ackedOk>>

\* A catch block that resets the view: setGrid([]); setAlerts([])
fetchDataCatch_Clears(i) ==
    /\ i \in 1..Len(polls)
    /\ polls' = RemoveAt(polls, i)
    /\ stale' = IF i <= stale THEN stale - 1 ELSE stale
    /\ grid' = <<>>
    /\ alerts' = <<>>
    /\ acks' = Touch(acks)
    /\ UNCHANGED pages
    /\ lastOp' = Step("fetchDataCatch", 0, FALSE, "fulfilled", "Failed to fetch dashboard data")
    /\ UNCHANGED <<phase, timer, srvAlerts, ackedOk>>

\* A catch block that gives up polling: clearInterval(interval)
fetchDataCatch_Halts(i) ==
    /\ i \in 1..Len(polls)
    /\ polls' = RemoveAt(polls, i)
    /\ stale' = IF i <= stale THEN stale - 1 ELSE stale
    /\ timer' = FALSE
    /\ UNCHANGED pages
    /\ lastOp' = Step("fetchDataCatch", 0, FALSE, "fulfilled", "Failed to fetch dashboard data")
    /\ UNCHANGED <<phase, grid, alerts, acks, srvAlerts, ackedOk>>

\* fetchData's catch block: Promise.all rejects as soon as one request
\* fails (one of the two is always undelivered while the poll is in
\* flight); the error is logged and nothing else happens.
fetchDataCatch(i) ==
    /\ i \in 1..Len(polls)
    /\ polls' = RemoveAt(polls, i)
    /\ stale' = IF i <= stale THEN stale - 1 ELSE stale
    /\ UNCHANGED pages
    /\ lastOp' = Step("fetchDataCatch", 0, FALSE, "fulfilled", "Failed to fetch dashboard data")
    /\ UNCHANGED <<phase, timer, grid, alerts, acks, srvAlerts, ackedOk>>

\* The Dismiss button of the k-th displayed alert: handleAcknowledge up
\* to its await, api.put(`/alerts/${alertId}/acknowledge`).
handleAcknowledge(k) ==
    /\ phase = "mounted"
    /\ k \in 1..Len(alerts)
    /\ Len(acks) < MaxAcks
    /\ acks' = Append(acks, [id |-> alerts[k].id, st |-> "pending", touched |-> FALSE])
    /\ UNCHANGED pages
    /\ lastOp' = Step("handleAcknowledge", alerts[k].id, FALSE, "", "")
    /\ UNCHANGED <<phase, timer, grid, alerts, polls, srvAlerts, stale, ackedOk>>

\* prev => prev.filter(a => a.id !== alertId)
FilterAlert(prev, alertId) == SelectSeq(prev, LAMBDA a : a.id # alertId)

\* handleAcknowledge after its await, the PUT succeeded: the alert is
\* filtered out of the alert state; the async function returns.
handleAcknowledgeThen(j) ==
    /\ j \in 1..Len(acks)
    /\ acks[j].st = "ok"
    /\ alerts' = FilterAlert(alerts, acks[j].id)
    /\ ackedOk' = ackedOk \cup {acks[j].id}
    /\ acks' = Touch(RemoveAt(acks, j))
    /\ UNCHANGED pages
    /\ lastOp' = Step("handleAcknowledgeThen", acks[j].id, acks[j].touched, "fulfilled", "")
    /\ UNCHANGED <<phase, timer, grid, polls, srvAlerts, stale>>

\* The filter moved to a finally block: the alert is removed on failure too.
handleAcknowledgeCatch_Removes(j) ==
    /\ j \in 1..Len(acks)
    /\ alerts' = FilterAlert(alerts, acks[j].id)
    /\ acks' = RemoveAt(acks, j)
    /\ UNCHANGED pages
    /\ lastOp' = Step("handleAcknowledgeCatch", acks[j].id, acks[j].touched, "fulfilled",
                      "Failed to acknowledge alert")
    /\ UNCHANGED <<phase, timer, grid, polls, srvAlerts, stale, ackedOk>>

\* handleAcknowledge's catch block, on the backend's error response or on
\* a transport failure (possible until the response is delivered): the
\* error is logged, the async function returns normally, so its promise
\* is fulfilled.
handleAcknowledgeCatch(j) ==
    /\ j \in 1..Len(acks)
    /\ acks' = RemoveAt(acks, j)
    /\ UNCHANGED pages
    /\ lastOp' = Step("handleAcknowledgeCatch", acks[j].id, acks[j].touched, "fulfilled",
                      "Failed to acknowledge alert")
    /\ UNCHANGED <<phase, timer, grid, alerts, polls, srvAlerts, stale, ackedOk>>

Next ==
    \/ useEffectMount
    \/ intervalTick
    \/ useEffectCleanup
    \/ \E i \in 1..MaxPolls : fetchDataThen(i)
    \/ \E i \in 1..MaxPolls : fetchDataCatch(i)
    \/ \E k \in 1..Cardinality(AlertIds) : handleAcknowledge(k)
    \/ \E j \in 1..MaxAcks : handleAcknowledgeThen(j)
    \/ \E j \in 1..MaxAcks : handleAcknowledgeCatch(j)
    \/ \E a \in AlertIds : RaiseAlert(a)
    \/ \E i \in 1..MaxPolls : ServeGrid(i)
    \/ \E i \in 1..MaxPolls : ServeAlerts(i)
    \/ \E j \in 1..MaxAcks : ServeAck(j)

Spec == Init /\ [][Next]_vars

TypeOK ==
    /\ phase \in {"rendered", "mounted", "unmounted"}
    /\ timer \in BOOLEAN
    /\ Len(polls) <= MaxPolls
    /\ Len(acks) <= MaxAcks
    /\ stale \in 0..Len(polls)
    /\ ackedOk \subseteq AlertIds

\* ------------------------------------------------------- the poll loop alone
\* The poll loop and the backend that answers it, without operator actions:
\* handleAcknowledge reads and writes neither polls nor timer.
LoopNext ==
    \/ useEffectMount
    \/ intervalTick
    \/ useEffectCleanup
    \/ \E i \in 1..MaxPolls : fetchDataThen(i)
    \/ \E i \in 1..MaxPolls : fetchDataCatch(i)
    \/ \E a \in AlertIds : RaiseAlert(a)
    \/ \E i \in 1..MaxPolls : ServeGrid(i)
    \/ \E i \in 1..MaxPolls : ServeAlerts(i)

\* Fairness: the interval timer fires while it is registered, the backend
\* answers every request and a delivered response is handled.  The claim
\* is about a fetch that succeeds after the failures, so the behaviours
\* considered are those in which the requests stop failing at some point.
LiveSpec ==
    /\ Init
    /\ [][LoopNext]_vars
    /\ WF_vars(intervalTick)
    /\ \A i \in 1..MaxPolls :
          WF_vars(ServeGrid(i)) /\ WF_vars(ServeAlerts(i)) /\ WF_vars(fetchDataThen(i))
    /\ <>[][\A i \in 1..MaxPolls : ~fetchDataCatch(i)]_vars

\* -------------------------------------------------------- CalibrationPage
\* JavaScript numbers, as far as this page produces them: a finite integer,
\* NaN, or an infinity with its sign.
Fin(n) == [k |-> "finite", v |-> n]
NaN == [k |-> "NaN", v |-> 0]
Infinity(sign) == [k |-> "Infinity", v |-> sign]

Sign(n) == IF n < 0 THEN -1 ELSE IF n > 0 THEN 1 ELSE 0

\* The text of a number input: <<>> when empty, <<n>> for the number n.
parseFloat(raw) == IF raw = <<>> THEN NaN ELSE Fin(raw[1])

\* x || 0: NaN and zero are falsy, every other number is kept.
Or0(x) == IF x = NaN \/ x = Fin(0) THEN Fin(0) ELSE x

\* Math.floor in the place of Math.ceil.
CeilQuot_Floor(a, b) ==
    IF b = 0
    THEN IF a = 0 THEN NaN ELSE Infinity(Sign(a))
    ELSE LET n == IF b < 0 THEN -a ELSE a
             d == IF b < 0 THEN -b ELSE b
         IN  Fin(n \div d)

\* Math.ceil(a / b): a / 0 is an infinity with the sign of a, 0 / 0 is NaN;
\* otherwise the quotient rounded towards plus infinity (minus zero is zero).
CeilQuot(a, b) ==
    IF b = 0
    THEN IF a = 0 THEN NaN ELSE Infinity(Sign(a))
    ELSE LET n == IF b < 0 THEN -a ELSE a
             d == IF b < 0 THEN -b ELSE b
         IN  Fin(-((-n) \div d))

\* x * y: NaN is contagious, infinity times zero is NaN.
Times(x, y) ==
    IF x = NaN \/ y = NaN THEN NaN
    ELSE IF x.k = "Infinity" \/ y.k = "Infinity"
         THEN IF Sign(x.v) * Sign(y.v) = 0 THEN NaN
              ELSE Infinity(Sign(x.v) * Sign(y.v))
         ELSE Fin(x.v * y.v)

gridRows(form) == Or0(CeilQuot(form.field_width, form.sensor_spacing))
gridCols(form) == Or0(CeilQuot(form.field_height, form.sensor_spacing))
totalSensors(form) == Times(gridRows(form), gridCols(form))

\* The grid preview is rendered when totalSensors > 0 && totalSensors <= 200.
MaxPreview == 200
PreviewShown ==
    LET t == totalSensors(cal.form) IN t.k = "finite" /\ t.v > 0 /\ t.v <= MaxPreview

\* gridTemplateColumns: `repeat(${gridCols}, 1fr)`: a count that is not a
\* positive integer makes the declaration invalid, which leaves one column.
TemplateColumns(cols) == IF cols.k = "finite" /\ cols.v >= 1 THEN cols.v ELSE 1

\* Placement that wraps one slot late.
NextSlot_WrapLate(slot, columns) ==
    IF slot.col < columns
    THEN [row |-> slot.row, col |-> slot.col + 1]
    ELSE [row |-> slot.row + 1, col |-> 0]

\* The browser places the children of the grid one after the other: the
\* next column of the row, or the first column of the next row when the
\* row is full.
NextSlot(slot, columns) ==
    IF slot.col + 1 < columns
    THEN [row |-> slot.row, col |-> slot.col + 1]
    ELSE [row |-> slot.row + 1, col |-> 0]

\* The slots of n children placed one after the other, the first of them
\* in slot first (the run is split in two to keep the evaluation shallow).
RECURSIVE Run(_, _, _)
Run(first, n, columns) ==
    IF n = 1 THEN <<first>>
    ELSE LET head == Run(first, n \div 2, columns)
             tail == Run(NextSlot(head[Len(head)], columns), n - n \div 2, columns)
         IN  head \o tail

\* The slots of the first n children: Array.from({ length: totalSensors }).
Layout(n, columns) ==
    IF n = 0 THEN <<>> ELSE Run([row |-> 0, col |-> 0], n, columns)

\* The slots of the preview's cells, in the order of their index.
Preview ==
    IF PreviewShown
    THEN Layout(totalSensors(cal.form).v, TemplateColumns(gridCols(cal.form)))
    ELSE <<>>

\* What can be typed into the number inputs, and the values of the select
\* and of the region input (texts are sequences of characters).
NumberTexts == {<<>>} \cup {<<n>> : n \in (-MaxDim)..MaxDim}
CropTypes == {"Corn", "Potato", "Rice", "Wheat"}
Regions == {<<>>, <<" ", " ">>, <<" ", "D", " ">>, <<"D">>}
NumberFields == {"field_width", "field_height", "sensor_spacing"}

\* String.prototype.trim
RECURSIVE trimStart(_)
trimStart(s) == IF s # <<>> /\ Head(s) = " " THEN trimStart(Tail(s)) ELSE s
RECURSIVE trimEnd(_)
trimEnd(s) ==
    IF s # <<>> /\ s[Len(s)] = " " THEN trimEnd(SubSeq(s, 1, Len(s) - 1)) ELSE s
\* No trimming at all.
trim_None(s) == s

trim(s) == trimEnd(trimStart(s))

\* handleChange: the three lengths are stored as parseFloat(value) || 0,
\* the other fields as typed.
handleChange(name, value) ==
    /\ ~cal.away
    /\ cal' = [cal EXCEPT !.form[name] =
                  IF name \in NumberFields THEN Or0(parseFloat(value)).v ELSE value]
    /\ lastOp' = Step("handleChange", 0, FALSE, "", "")
    /\ UNCHANGED <<phase, timer, grid, alerts, polls, acks, srvAlerts, stale, ackedOk, dis, app,
                   upl, cell, color, entries, rendered>>

\* The submit button: disabled={submitting || totalSensors === 0}
ButtonDisabled == cal.submitting \/ totalSensors(cal.form) = Fin(0)

\* A form whose number inputs carry no min attribute.
ConstraintsValid_NoMin == TRUE

\* The browser's constraint validation of the number inputs, which runs
\* before the submit event: min="1", min="1", min="0.5" (steps of 0.5).

ConstraintsValid ==
    /\ cal.form.field_width >= 1 * Unit
    /\ cal.form.field_height >= 1 * Unit
    /\ 2 * cal.form.sensor_spacing >= 1 * Unit

\* handleSubmit, up to its await: a blank region is refused with a
\* message, otherwise POST /config is dispatched with the form.
CalibrationPage_handleSubmit ==
    /\ ~cal.away
    /\ ~ButtonDisabled
    /\ ConstraintsValid
    /\ IF trim(cal.form.region) = <<>>
       THEN /\ cal' = [cal EXCEPT !.error = "Please enter your region/city"]
            /\ lastOp' = Step("handleSubmit", 0, FALSE, "fulfilled", "")
       ELSE /\ cal.posts < MaxPosts
            /\ cal' = [cal EXCEPT !.submitting = TRUE, !.error = "",
                                  !.post = "sent", !.posts = @ + 1]
            /\ lastOp' = Step("handleSubmit", 0, TRUE, "", "")
    /\ UNCHANGED <<phase, timer, grid, alerts, polls, acks, srvAlerts, stale, ackedOk, dis, app,
                   upl, cell, color, entries, rendered>>

\* The POST succeeded: await onConfigured(); navigate('/'); finally.
CalibrationPage_handleSubmitThen ==
    /\ cal.post = "sent"
    /\ cal' = [cal EXCEPT !.post = "", !.submitting = FALSE, !.away = TRUE]
    /\ lastOp' = Step("handleSubmitThen", 0, FALSE, "fulfilled", "")
    /\ UNCHANGED <<phase, timer, grid, alerts, polls, acks, srvAlerts, stale, ackedOk, dis, app,
                   upl, cell, color, entries, rendered>>

\* The POST failed: setError(err.response?.data?.detail || 'Failed to save
\* configuration'); finally.  detail is "" when the response carries none.
CalibrationPage_handleSubmitCatch(detail) ==
    /\ cal.post = "sent"
    /\ cal' = [cal EXCEPT !.post = "", !.submitting = FALSE,
                          !.error = IF detail = "" THEN "Failed to save configuration"
                                    ELSE detail]
    /\ lastOp' = Step("handleSubmitCatch", 0, FALSE, "fulfilled", "")
    /\ UNCHANGED <<phase, timer, grid, alerts, polls, acks, srvAlerts, stale, ackedOk, dis, app,
                   upl, cell, color, entries, rendered>>

ConfigDetails == {"", "Invalid configuration"}

CalNext ==
    \/ \E name \in NumberFields : \E value \in NumberTexts : handleChange(name, value)
    \/ \E value \in CropTypes : handleChange("crop_type", value)
    \/ \E value \in Regions : handleChange("region", value)
    \/ CalibrationPage_handleSubmit
    \/ CalibrationPage_handleSubmitThen
    \/ \E detail \in ConfigDetails : CalibrationPage_handleSubmitCatch(detail)

CalSpec == Init /\ [][CalNext]_vars

\* ---------------------------------------------------------------- GridCell
\* The status and latest_prediction a cell can carry; "" stands for a
\* prediction that is null, undefined or empty (all falsy), "maintenance"
\* and "pest_stress" for values the function does not name.
Statuses == {"active", "offline", "error", "maintenance"}
Predictions == {"", "healthy", "disease_stress", "nutrient_stress", "water_stress",
                "pest_stress"}
Cells == [status : Statuses, latest_prediction : Predictions]

\* getColor with the prediction looked at before the status.
getColor_PredictionFirst(c) ==
    IF c.latest_prediction = "" THEN "bg-green-500"
    ELSE IF c.latest_prediction = "healthy" THEN "bg-green-500"
    ELSE IF c.latest_prediction = "disease_stress" THEN "bg-orange-500"
    ELSE IF c.latest_prediction = "nutrient_stress" THEN "bg-yellow-500"
    ELSE IF c.latest_prediction = "water_stress" THEN "bg-yellow-500"
    ELSE IF c.status = "error" \/ c.status = "offline" THEN "bg-red-500"
    ELSE "bg-green-500"

\* getColor: the two ifs, then the switch with its default.
getColor(c) ==
    IF c.status = "error" \/ c.status = "offline" THEN "bg-red-500"
    ELSE IF c.latest_prediction = "" THEN "bg-green-500"
    ELSE IF c.latest_prediction = "healthy" THEN "bg-green-500"
    ELSE IF c.latest_prediction = "disease_stress" THEN "bg-orange-500"
    ELSE IF c.latest_prediction = "nutrient_stress" THEN "bg-yellow-500"
    ELSE IF c.latest_prediction = "water_stress" THEN "bg-yellow-500"
    ELSE "bg-green-500"

\* A grid snapshot hands the component another cell.
GridCell_props(c) ==
    /\ c # cell
    /\ cell' = c
    /\ lastOp' = Step("props", 0, FALSE, "", "")
    /\ UNCHANGED <<phase, timer, grid, alerts, polls, acks, srvAlerts, stale, ackedOk, dis, app,
                   cal, upl, color, entries, rendered>>

\* The component renders: className={`${getColor()} ...`}
GridCell_render ==
    /\ lastOp.op # "getColor"
    /\ color' = getColor(cell)
    /\ lastOp' = Step("getColor", 0, FALSE, "", "")
    /\ UNCHANGED <<phase, timer, grid, alerts, polls, acks, srvAlerts, stale, ackedOk, dis, app,
                   cal, upl, cell, entries, rendered>>

ColorInit ==
    /\ DashInit /\ CalInit /\ UplInit /\ DisInit /\ AppInit
    /\ cell \in Cells
    /\ color = ""
    /\ entries = <<>>
    /\ rendered = <<>>

ColorNext ==
    \/ \E c \in Cells : GridCell_props(c)
    \/ GridCell_render

ColorSpec == ColorInit /\ [][ColorNext]_vars

\* -------------------------------------------------------------- UploadForm
\* What the operator can pick and type, and what the backend can answer.
Files == {"leaf.jpg"}
FieldNames == {"n", "p", "k", "soil_moisture"}
FieldTexts == {"", "45"}
Analyses == {[prediction |-> "disease_stress", confidence |-> 91]}
UploadDetails == {"", "Model not loaded"}
SensorLists == {<<>>, SensorIds}

\* String(id)
String(id) == ToString(id)

\* useEffect: api.get('/sensors').then(...): the zone defaults to the
\* first sensor of a list that is not empty.
UploadForm_sensorsThen(list) ==
    /\ upl.sensorsReq = "sent"
    /\ upl' = [upl EXCEPT !.sensorsReq = "done", !.sensors = list,
                          !.zoneId = IF Len(list) > 0 THEN String(list[1]) ELSE @]
    /\ lastOp' = Step("UploadForm.sensorsThen", 0, FALSE, "", "")
    /\ UNCHANGED <<phase, timer, grid, alerts, polls, acks, srvAlerts, stale, ackedOk, dis, app,
                   cal, cell, color, entries, rendered>>

\* useEffect: .catch(console.error)
UploadForm_sensorsCatch ==
    /\ upl.sensorsReq = "sent"
    /\ upl' = [upl EXCEPT !.sensorsReq = "done"]
    /\ lastOp' = Step("UploadForm.sensorsCatch", 0, FALSE, "", "GET /sensors failed")
    /\ UNCHANGED <<phase, timer, grid, alerts, polls, acks, srvAlerts, stale, ackedOk, dis, app,
                   cal, cell, color, entries, rendered>>

\* handleFile: a cancelled picker (no file) changes nothing.
handleFile(f) ==
    /\ upl' = IF f = NoFile THEN upl ELSE [upl EXCEPT !.file = f]
    /\ lastOp' = Step("handleFile", 0, FALSE, "", "")
    /\ UNCHANGED <<phase, timer, grid, alerts, polls, acks, srvAlerts, stale, ackedOk, dis, app,
                   cal, cell, color, entries, rendered>>

\* The zone select: onChange={e => setZoneId(e.target.value)}
UploadForm_selectZone(k) ==
    /\ k \in 1..Len(upl.sensors)
    /\ upl' = [upl EXCEPT !.zoneId = String(upl.sensors[k])]
    /\ lastOp' = Step("UploadForm.selectZone", 0, FALSE, "", "")
    /\ UNCHANGED <<phase, timer, grid, alerts, polls, acks, srvAlerts, stale, ackedOk, dis, app,
                   cal, cell, color, entries, rendered>>

handleField(name, value) ==
    /\ upl' = [upl EXCEPT !.fields[name] = value]
    /\ lastOp' = Step("handleField", 0, FALSE, "", "")
    /\ UNCHANGED <<phase, timer, grid, alerts, polls, acks, srvAlerts, stale, ackedOk, dis, app,
                   cal, cell, color, entries, rendered>>

\* The text as typed, without the fallback.
OrZero_Blocks(text) == text

\* text || '0'

OrZero(text) == IF text = "" THEN "0" ELSE text

\* new FormData() and its six append calls.
FormData(zoneId, file, fields) ==
    [zone_id |-> zoneId, image |-> file, n |-> OrZero(fields.n), p |-> OrZero(fields.p),
     k |-> OrZero(fields.k), soil_moisture |-> OrZero(fields.soil_moisture)]

\* The submit button: disabled={loading || !file}
UploadDisabled == upl.loading \/ upl.file = NoFile

\* The validation of handleSubmit without the zone check.
Validation_NoZone ==
    IF upl.file = NoFile THEN "Please select an image." ELSE ""

\* The two early returns of handleSubmit: the message, "" when both pass.
Validation ==
    IF upl.file = NoFile THEN "Please select an image."
    ELSE IF upl.zoneId = "" THEN "Please select a zone."
    ELSE ""

\* handleSubmit, up to its await: a validation message and nothing else, or
\* loading, no error, no result, and POST /drone/upload with the form data.
UploadForm_handleSubmit ==
    /\ ~UploadDisabled
    /\ IF Validation # ""
       THEN /\ upl' = [upl EXCEPT !.error = Validation]
            /\ lastOp' = Step("UploadForm.handleSubmit", 0, FALSE, "fulfilled", "")
       ELSE /\ upl.submits < MaxUploads
            /\ upl' = [upl EXCEPT !.loading = TRUE, !.error = "", !.result = NoResult,
                          !.upload = <<FormData(upl.zoneId, upl.file, upl.fields)>>,
                          !.uploads = @ + 1, !.submits = @ + 1]
            /\ lastOp' = Step("UploadForm.handleSubmit", 0, TRUE, "", "")
    /\ UNCHANGED <<phase, timer, grid, alerts, polls, acks, srvAlerts, stale, ackedOk, dis, app,
                   cal, cell, color, entries, rendered>>

\* The upload succeeded: setResult(res.data); onUploaded(); finally.
UploadForm_handleSubmitThen(analysis) ==
    /\ upl.upload # <<>>
    /\ upl' = [upl EXCEPT !.upload = <<>>, !.result = analysis, !.loading = FALSE,
                          !.flightFetches = @ + 1]
    /\ lastOp' = Step("UploadForm.handleSubmitThen", 0, FALSE, "fulfilled", "")
    /\ UNCHANGED <<phase, timer, grid, alerts, polls, acks, srvAlerts, stale, ackedOk, dis, app,
                   cal, cell, color, entries, rendered>>

\* The catch block that always shows the generic message.
UploadForm_handleSubmitCatch_Generic(detail) ==
    /\ upl.upload # <<>>
    /\ upl' = [upl EXCEPT !.upload = <<>>, !.loading = FALSE, !.error = "Upload failed."]
    /\ lastOp' = Step("UploadForm.handleSubmitCatch", 0, FALSE, "fulfilled", detail)
    /\ UNCHANGED <<phase, timer, grid, alerts, polls, acks, srvAlerts, stale, ackedOk, dis, app,
                   cal, cell, color, entries, rendered>>

\* The upload failed: setError(err.response?.data?.detail || 'Upload failed.');
\* finally.  detail is "" when the response carries none; the step records it.
UploadForm_handleSubmitCatch(detail) ==
    /\ upl.upload # <<>>
    /\ upl' = [upl EXCEPT !.upload = <<>>, !.loading = FALSE,
                          !.error = IF detail = "" THEN "Upload failed." ELSE detail]
    /\ lastOp' = Step("UploadForm.handleSubmitCatch", 0, FALSE, "fulfilled", detail)
    /\ UNCHANGED <<phase, timer, grid, alerts, polls, acks, srvAlerts, stale, ackedOk, dis, app,
                   cal, cell, color, entries, rendered>>

UplNext ==
    \/ \E list \in SensorLists : UploadForm_sensorsThen(list)
    \/ UploadForm_sensorsCatch
    \/ \E f \in Files \cup {NoFile} : handleFile(f)
    \/ \E k \in 1..Len(SensorIds) : UploadForm_selectZone(k)
    \/ \E name \in FieldNames : \E value \in FieldTexts : handleField(name, value)
    \/ UploadForm_handleSubmit
    \/ \E analysis \in Analyses : UploadForm_handleSubmitThen(analysis)
    \/ \E detail \in UploadDetails : UploadForm_handleSubmitCatch(detail)

UplSpec == Init /\ [][UplNext]_vars

\* ------------------------------------------------------ probability lists
\* Object.entries(all_probs_json): the pairs <<label, prob>> in the order
\* the backend listed the keys.  The labels in alphabetical order, and the
\* probabilities (per cent) a label can carry.
Labels == <<"disease_stress", "healthy", "water_stress">>
Probs == {10, 45}

\* The position of a label in the alphabet.
LabelRank(l) == CHOOSE k \in 1..Len(Labels) : Labels[k] = l

\* Every listing of all labels, each with a probability.
EntryLists ==
    {es \in [1..Len(Labels) -> {<<Labels[k], q>> : k \in 1..Len(Labels), q \in Probs}] :
        \A i, j \in 1..Len(Labels) : i # j => es[i][1] # es[j][1]}

\* Array.prototype.sort with the comparator (a, b) => b[1] - a[1]: the sort
\* is stable, so an entry goes behind every entry that is not smaller.
InsertByProb(sorted, e) ==
    LET k == Cardinality({i \in 1..Len(sorted) : sorted[i][2] >= e[2]})
    IN  SubSeq(sorted, 1, k) \o <<e>> \o SubSeq(sorted, k + 1, Len(sorted))

RECURSIVE SortByProb(_)
SortByProb(es) ==
    IF es = <<>> THEN <<>>
    ELSE InsertByProb(SortByProb(SubSeq(es, 1, Len(es) - 1)), es[Len(es)])

\* UploadForm's result block and DiseaseAnalysisPage's sortedProbs.
sortedProbs ==
    /\ rendered' = SortByProb(entries)
    /\ lastOp' = Step("sortedProbs", 0, FALSE, "", "")
    /\ UNCHANGED <<phase, timer, grid, alerts, polls, acks, srvAlerts, stale, ackedOk, dis, app,
                   cal, upl, cell, color, entries>>

\* ZoneCard: Object.entries(zone.all_probs).map(...), as listed.
ZoneCard ==
    /\ rendered' = entries
    /\ lastOp' = Step("ZoneCard", 0, FALSE, "", "")
    /\ UNCHANGED <<phase, timer, grid, alerts, polls, acks, srvAlerts, stale, ackedOk, dis, app,
                   cal, upl, cell, color, entries>>

ProbsInit ==
    /\ DashInit /\ CalInit /\ UplInit /\ DisInit /\ AppInit
    /\ cell = NoCell
    /\ color = ""
    /\ entries \in EntryLists
    /\ rendered = <<>>

ProbsNext == sortedProbs \/ ZoneCard

ProbsSpec == ProbsInit /\ [][ProbsNext]_vars

\* ----------------------------------------------------- DiseaseAnalysisPage
\* The images the backend lists, by id.
ImageIds == <<11, 12, 13>>
ImageLists == {<<>>, SubSeq(ImageIds, 1, 2), ImageIds}

\* useEffect: api.get('/dashboard/images').then(res => setImages(res.data))
DiseaseAnalysisPage_imagesThen(list) ==
    /\ dis.imagesReq = "sent"
    /\ dis' = [dis EXCEPT !.imagesReq = "done", !.images = list]
    /\ lastOp' = Step("DiseaseAnalysisPage.imagesThen", 0, FALSE, "", "")
    /\ UNCHANGED <<phase, timer, grid, alerts, polls, acks, srvAlerts, stale, ackedOk,
                   cal, upl, cell, color, entries, rendered, app>>

\* useEffect: .catch(console.error).finally(...)
DiseaseAnalysisPage_imagesCatch ==
    /\ dis.imagesReq = "sent"
    /\ dis' = [dis EXCEPT !.imagesReq = "done"]
    /\ lastOp' = Step("DiseaseAnalysisPage.imagesCatch", 0, FALSE, "",
                      "GET /dashboard/images failed")
    /\ UNCHANGED <<phase, timer, grid, alerts, polls, acks, srvAlerts, stale, ackedOk,
                   cal, upl, cell, color, entries, rendered, app>>

\* A click on a listed image: setSelected(img); setResult(null)
DiseaseAnalysisPage_selectImage(k) ==
    /\ k \in 1..Len(dis.images)
    /\ dis' = [dis EXCEPT !.selected = dis.images[k], !.result = 0]
    /\ lastOp' = Step("DiseaseAnalysisPage.selectImage", dis.images[k], FALSE, "", "")
    /\ UNCHANGED <<phase, timer, grid, alerts, polls, acks, srvAlerts, stale, ackedOk,
                   cal, upl, cell, color, entries, rendered, app>>

\* handleAnalyze, up to its await.  The button exists once an image is
\* selected and is disabled while analyzing.
handleAnalyze ==
    /\ dis.selected # 0
    /\ ~dis.analyzing
    /\ dis.analyses < MaxAnalyses
    /\ dis' = [dis EXCEPT !.analyzing = TRUE, !.result = 0,
                          !.analysis = <<dis.selected>>, !.analyses = @ + 1]
    /\ lastOp' = Step("handleAnalyze", dis.selected, FALSE, "", "")
    /\ UNCHANGED <<phase, timer, grid, alerts, polls, acks, srvAlerts, stale, ackedOk,
                   cal, upl, cell, color, entries, rendered, app>>

\* The analysis arrived: setResult(res.data); finally.
handleAnalyzeThen ==
    /\ dis.analysis # <<>>
    /\ dis' = [dis EXCEPT !.result = dis.analysis[1], !.analysis = <<>>,
                          !.analyzing = FALSE]
    /\ lastOp' = Step("handleAnalyzeThen", dis.analysis[1], FALSE, "fulfilled", "")
    /\ UNCHANGED <<phase, timer, grid, alerts, polls, acks, srvAlerts, stale, ackedOk,
                   cal, upl, cell, color, entries, rendered, app>>

\* The analysis failed: console.error; finally.
handleAnalyzeCatch ==
    /\ dis.analysis # <<>>
    /\ dis' = [dis EXCEPT !.analysis = <<>>, !.analyzing = FALSE]
    /\ lastOp' = Step("handleAnalyzeCatch", dis.analysis[1], FALSE, "fulfilled",
                      "Disease analysis failed")
    /\ UNCHANGED <<phase, timer, grid, alerts, polls, acks, srvAlerts, stale, ackedOk,
                   cal, upl, cell, color, entries, rendered, app>>

DisNext ==
    \/ \E list \in ImageLists : DiseaseAnalysisPage_imagesThen(list)
    \/ DiseaseAnalysisPage_imagesCatch
    \/ \E k \in 1..Len(ImageIds) : DiseaseAnalysisPage_selectImage(k)
    \/ handleAnalyze
    \/ handleAnalyzeThen
    \/ handleAnalyzeCatch

DisSpec == Init /\ [][DisNext]_vars

\* --------------------------------------------------------------------- App
\* The routes of <Routes>, the four of them that ask for a configuration
\* (they are the links of the Sidebar), and what GET /config/active can
\* answer: a configuration, or nothing ("" stands for null).
GuardedPaths == {"/", "/crop-analysis", "/disease-analysis", "/drone"}
Paths == GuardedPaths \cup {"/calibration"}
Configs == {"", "Corn 4x7"}

\* The page a guarded route shows when it shows one.
PageOf(path) ==
    CASE path = "/" -> "DashboardPage"
      [] path = "/crop-analysis" -> "CropAnalysisPage"
      [] path = "/disease-analysis" -> "DiseaseAnalysisPage"
      [] path = "/drone" -> "DroneManagementPage"

\* Routes without the config test.
RouteElement_NoGuard(path) ==
    IF path = "/calibration" THEN "CalibrationPage" ELSE PageOf(path)

\* element={config ? <Page /> : <Navigate to="/calibration" />}
RouteElement(path) ==
    IF path = "/calibration" THEN "CalibrationPage"
    ELSE IF app.config # "" THEN PageOf(path)
    ELSE "Navigate"

\* What App renders: the loading screen, or the element of the route.
Screen == IF app.loading THEN "Loading" ELSE RouteElement(app.path)

\* useEffect(() => { fetchConfig() }, [])
App_useEffect ==
    /\ ~app.mounted
    /\ app' = [app EXCEPT !.mounted = TRUE, !.fetches = @ + 1, !.calls = @ + 1]
    /\ lastOp' = Step("App.useEffect", 0, FALSE, "", "")
    /\ UNCHANGED <<phase, timer, grid, alerts, polls, acks, srvAlerts, stale, ackedOk,
                   cal, upl, cell, color, entries, rendered, dis>>

\* fetchConfig after its await: setConfig(res.data); finally setLoading(false)
fetchConfigThen(data) ==
    /\ app.fetches > 0
    /\ app' = [app EXCEPT !.config = data, !.loading = FALSE, !.fetches = @ - 1]
    /\ lastOp' = Step("fetchConfigThen", 0, FALSE, "fulfilled", "")
    /\ UNCHANGED <<phase, timer, grid, alerts, polls, acks, srvAlerts, stale, ackedOk,
                   cal, upl, cell, color, entries, rendered, dis>>

\* fetchConfig, the request failed: setConfig(null); finally setLoading(false)
fetchConfigCatch ==
    /\ app.fetches > 0
    /\ app' = [app EXCEPT !.config = "", !.loading = FALSE, !.fetches = @ - 1]
    /\ lastOp' = Step("fetchConfigCatch", 0, FALSE, "fulfilled", "")
    /\ UNCHANGED <<phase, timer, grid, alerts, polls, acks, srvAlerts, stale, ackedOk,
                   cal, upl, cell, color, entries, rendered, dis>>

\* A click on a link of the Sidebar, which is rendered once loading is over.
NavLink(to) ==
    /\ ~app.loading
    /\ to # app.path
    /\ app' = [app EXCEPT !.path = to]
    /\ lastOp' = Step("NavLink", 0, FALSE, "", "")
    /\ UNCHANGED <<phase, timer, grid, alerts, polls, acks, srvAlerts, stale, ackedOk,
                   cal, upl, cell, color, entries, rendered, dis>>

\* <Navigate to="/calibration" /> is rendered: the router goes there.
Navigate ==
    /\ Screen = "Navigate"
    /\ app' = [app EXCEPT !.path = "/calibration"]
    /\ lastOp' = Step("Navigate", 0, FALSE, "", "")
    /\ UNCHANGED <<phase, timer, grid, alerts, polls, acks, srvAlerts, stale, ackedOk,
                   cal, upl, cell, color, entries, rendered, dis>>

\* CalibrationPage calls onConfigured, which is fetchConfig.
App_onConfigured ==
    /\ Screen = "CalibrationPage"
    /\ app.calls < MaxConfigCalls
    /\ app' = [app EXCEPT !.fetches = @ + 1, !.calls = @ + 1]
    /\ lastOp' = Step("App.onConfigured", 0, FALSE, "", "")
    /\ UNCHANGED <<phase, timer, grid, alerts, polls, acks, srvAlerts, stale, ackedOk,
                   cal, upl, cell, color, entries, rendered, dis>>

\* The application is opened at any of its routes.
AppSpecInit ==
    /\ DashInit /\ CalInit /\ UplInit /\ ViewInit /\ DisInit
    /\ \E path \in Paths :
          app = [config |-> "", loading |-> TRUE, fetches |-> 0, calls |-> 0,
                 path |-> path, mounted |-> FALSE]

AppNext ==
    \/ App_useEffect
    \/ \E data \in Configs : fetchConfigThen(data)
    \/ fetchConfigCatch
    \/ \E to \in GuardedPaths : NavLink(to)
    \/ Navigate
    \/ App_onConfigured

\* The mount effect runs, and a request in flight is answered or fails.
AppSpec ==
    /\ AppSpecInit
    /\ [][AppNext]_vars
    /\ WF_vars(App_useEffect)
    /\ WF_vars((\E data \in Configs : fetchConfigThen(data)) \/ fetchConfigCatch)

\* ------------------------------------------------------------------ claims
\* The ids of the alerts on display.
ShownIds(as) == {as[k].id : k \in 1..Len(as)}

\* C1: once acknowledge(X) has succeeded, X is never again in the
\* active-alert state (a fetch dispatched before the success must not bring
\* it back).
C1_NoResurrection == \A x \in ackedOk : x \notin ShownIds(alerts)

\* C2: at most one poll fetch is outstanding at any time; a tick that
\* finds one in flight is skipped.
C2_SingleFlight == Len(polls) <= 1

\* C3: a completed fetch is applied only if no fetch dispatched after it
\* has been applied already (its sequence number is greater than the
\* last-applied one).
C3_StaleDiscarded == ~(lastOp.op = "fetchDataThen" /\ lastOp.flag)

C5_OptimisticRemoval ==
    lastOp.op = "handleAcknowledge" => lastOp.id \notin ShownIds(alerts)

\* C6: when the backend acknowledge call for alert X has failed and the
\* failure has been handled, X is in the active-alert list, provided
\* nothing else replaced the list while the call was in flight.
C6_FailureKeepsAlert ==
    (lastOp.op = "handleAcknowledgeCatch" /\ ~lastOp.flag)
        => lastOp.id \in ShownIds(alerts)

C6_Witness ==
    /\ lastOp.op = "handleAcknowledgeCatch"
    /\ ~lastOp.flag
    /\ lastOp.id \in ShownIds(alerts)

\* C7: a failed backend acknowledge call is reported to the caller: the
\* promise handleAcknowledge returned does not resolve as success.
C7_FailureReported ==
    lastOp.op = "handleAcknowledgeCatch" => lastOp.promise = "rejected"

\* C8: in every displayed state a zone's has_alert marker is true iff the
\* alert list holds an unacknowledged alert of that zone's sensor.
C8_HasAlertIff ==
    \A z \in 1..Len(grid) :
        grid[z].has_alert <=>
            \E k \in 1..Len(alerts) :
                alerts[k].sensor_id = grid[z].sensor_id /\ ~alerts[k].acknowledged

\* C9: a failed poll fetch leaves the grid state and the alert state
\* exactly as they were.
C9_LastKnownGood ==
    [][lastOp'.op = "fetchDataCatch" => (grid' = grid /\ alerts' = alerts)]_vars

C9_Witness ==
    /\ lastOp.op = "fetchDataCatch"
    /\ Len(grid) > 0
    /\ Len(alerts) > 0

\* C10: a failed poll fetch never halts the loop: while the page stays
\* mounted a fetch is dispatched again after every failure, and a later
\* successful fetch is applied.
C10_LoopResilient ==
    /\ [](phase = "mounted" => timer)
    /\ (lastOp.op = "fetchDataCatch") ~> (lastOp.op = "intervalTick" \/ phase = "unmounted")
    /\ (lastOp.op = "fetchDataCatch") ~> (lastOp.op = "fetchDataThen" \/ phase = "unmounted")

C10_Witness ==
    /\ lastOp.op = "fetchDataCatch"
    /\ phase = "mounted"
    /\ timer
    /\ Len(polls) > 0
    /\ Len(grid) > 0

\* r is the ceiling of a / b, for b > 0: the least integer with r * b >= a.
IsCeil(r, a, b) == r * b >= a /\ (r - 1) * b < a

\* A JavaScript number that is >= 0.
Geq0(x) == (x.k = "finite" /\ x.v >= 0) \/ x = Infinity(1)

\* C11: whenever width, height and spacing are all positive, rows is the
\* ceiling of width / spacing, cols the ceiling of height / spacing, the
\* zone count is rows * cols, and it is 0 exactly when rows or cols is 0;
\* the form 8 x 14 with spacing 2 gives 4 x 7 = 28.
C11_GridDerivation ==
    LET f == cal.form
        rows == gridRows(f)
        cols == gridCols(f)
    IN  /\ (f.field_width > 0 /\ f.field_height > 0 /\ f.sensor_spacing > 0) =>
              /\ rows.k = "finite" /\ IsCeil(rows.v, f.field_width, f.sensor_spacing)
              /\ cols.k = "finite" /\ IsCeil(cols.v, f.field_height, f.sensor_spacing)
              /\ totalSensors(f) = Fin(rows.v * cols.v)
              /\ (totalSensors(f) = Fin(0)) <=> (rows = Fin(0) \/ cols = Fin(0))
        /\ (f.field_width = 8 * Unit /\ f.field_height = 14 * Unit
              /\ f.sensor_spacing = 2 * Unit) =>
              (rows = Fin(4) /\ cols = Fin(7) /\ totalSensors(f) = Fin(28))

\* A width of 1.5 m with a spacing of 1 m has been typed: 2 rows.
C11_Witness ==
    /\ lastOp.op = "handleChange"
    /\ cal.form.field_width = 3 /\ cal.form.sensor_spacing = 2
    /\ gridRows(cal.form) = Fin(2)

\* C12: with a spacing that is zero or negative no grid shape is derived
\* (rows and cols stay at the fallback 0) and the form cannot be submitted.
C12_SpacingRejected ==
    cal.form.sensor_spacing <= 0 =>
        /\ gridRows(cal.form) = Fin(0) /\ gridCols(cal.form) = Fin(0)
        /\ ButtonDisabled \/ ~ConstraintsValid

\* C13: with a positive spacing, a width that is zero or negative gives 0
\* rows, a height that is zero or negative gives 0 cols, either gives 0
\* zones; and the zone count is never below 0 in any state of the form.
C13_NonNegativeZones ==
    LET f == cal.form
    IN  /\ (f.sensor_spacing > 0 /\ f.field_width <= 0) =>
              (gridRows(f) = Fin(0) /\ totalSensors(f) = Fin(0))
        /\ (f.sensor_spacing > 0 /\ f.field_height <= 0) =>
              (gridCols(f) = Fin(0) /\ totalSensors(f) = Fin(0))
        /\ Geq0(totalSensors(f))

\* C14: a step of handleSubmit that dispatches POST /config is taken only
\* with a form whose zone count is greater than 0.
C14_NoZeroZoneSubmit ==
    (lastOp.op = "handleSubmit" /\ lastOp.flag) =>
        LET t == totalSensors(cal.form) IN t.k = "finite" /\ t.v > 0

\* POST /config has just been dispatched.
C14_Witness ==
    /\ lastOp.op = "handleSubmit" /\ lastOp.flag
    /\ cal.post = "sent" /\ cal.posts = 1

\* The severity class a colour stands for.
ZoneClass(c) ==
    CASE c = "bg-red-500" -> "critical"
      [] c = "bg-green-500" -> "nominal"
      [] c = "bg-orange-500" -> "disease"
      [] c = "bg-yellow-500" -> "warning"
      [] OTHER -> "none"

\* C15: a rendered cell is classified by the first rule that matches:
\* status error or offline is critical whatever the prediction; otherwise
\* no prediction is nominal, healthy is nominal, disease_stress is disease,
\* nutrient_stress and water_stress are warning, anything else is nominal;
\* every cell gets one of the four classes.
C15_Classification ==
    lastOp.op = "getColor" =>
        LET s == cell.status
            p == cell.latest_prediction
            z == ZoneClass(color)
        IN  /\ z \in {"critical", "nominal", "disease", "warning"}
            /\ s \in {"error", "offline"} => z = "critical"
            /\ s \notin {"error", "offline"} =>
                  /\ p = "" => z = "nominal"
                  /\ p = "healthy" => z = "nominal"
                  /\ p = "disease_stress" => z = "disease"
                  /\ p \in {"nutrient_stress", "water_stress"} => z = "warning"
                  /\ p \notin {"", "healthy", "disease_stress", "nutrient_stress",
                               "water_stress"} => z = "nominal"

\* An offline cell whose last prediction was disease_stress is rendered.
C15_Witness ==
    /\ lastOp.op = "getColor"
    /\ cell = [status |-> "offline", latest_prediction |-> "disease_stress"]
    /\ color = "bg-red-500"

\* The prediction the dashboard shows for a cell ("" when it shows none).
CellPrediction(c) ==
    IF "latest_prediction" \in DOMAIN c THEN c.latest_prediction ELSE ""

\* C16: once an upload has succeeded for a zone, the dashboard's state holds
\* the returned prediction for that zone, before any poll completes.
C16_OverlayShowsResult ==
    upl.result # NoResult =>
        \E z \in 1..Len(grid) :
            /\ String(grid[z].sensor_id) = upl.zoneId
            /\ CellPrediction(grid[z]) = upl.result.prediction

\* C17: a submit without an image or without a zone ends with a validation
\* message and dispatches no upload; an upload in flight always carries
\* both an image and a zone.
C17_UploadValidation ==
    /\ (lastOp.op = "UploadForm.handleSubmit" /\ ~lastOp.flag) =>
          /\ upl.error \in {"Please select an image.", "Please select a zone."}
          /\ upl.upload = <<>> /\ upl.uploads = upl.submits
    /\ (lastOp.op = "UploadForm.handleSubmit" /\ (upl.file = NoFile \/ upl.zoneId = "")) =>
          ~lastOp.flag
    /\ upl.upload # <<>> =>
          (upl.upload[1].image # NoFile /\ upl.upload[1].zone_id # "")

\* A submit with an image and no zone was refused.
C17_Witness ==
    /\ lastOp.op = "UploadForm.handleSubmit" /\ ~lastOp.flag
    /\ upl.file # NoFile /\ upl.zoneId = ""
    /\ upl.error = "Please select a zone." /\ upl.uploads = 0

\* C18: after a failed upload the error shown is the detail the backend
\* sent, or the generic message when it sent none, and the failure
\* dispatches nothing: there is one upload per accepted submit.
C18_UploadFailure ==
    /\ lastOp.op = "UploadForm.handleSubmitCatch" =>
          /\ lastOp.error # "" => upl.error = lastOp.error
          /\ lastOp.error = "" => upl.error = "Upload failed."
          /\ upl.upload = <<>> /\ ~upl.loading
    /\ upl.uploads = upl.submits

\* An upload failed with a detail from the backend.
C18_Witness ==
    /\ lastOp.op = "UploadForm.handleSubmitCatch"
    /\ upl.error = "Model not loaded" /\ upl.uploads = 1

\* C19: a rendered probability list holds the entries of the mapping in
\* descending probability, entries of equal probability in alphabetical
\* order of their labels, whatever order the backend listed them in.
C19_ProbsOrdered ==
    lastOp.op \in {"sortedProbs", "ZoneCard"} =>
        /\ Len(rendered) = Len(entries)
        /\ {rendered[i] : i \in 1..Len(rendered)} = {entries[i] : i \in 1..Len(entries)}
        /\ \A i \in 1..(Len(rendered) - 1) :
              \/ rendered[i][2] > rendered[i + 1][2]
              \/ /\ rendered[i][2] = rendered[i + 1][2]
                 /\ LabelRank(rendered[i][1]) < LabelRank(rendered[i + 1][1])

\* C20: the form data of a dispatched upload carries "0" for each of n, p,
\* k and soil_moisture that was left empty, and the typed text for each
\* that was filled in.
C20_EmptyFieldsAsZero ==
    (lastOp.op = "UploadForm.handleSubmit" /\ lastOp.flag) =>
        /\ upl.upload # <<>>
        /\ \A name \in FieldNames :
              /\ upl.fields[name] = "" => upl.upload[1][name] = "0"
              /\ upl.fields[name] # "" => upl.upload[1][name] = upl.fields[name]

\* An upload was dispatched with n left empty and p filled in.
C20_Witness ==
    /\ lastOp.op = "UploadForm.handleSubmit" /\ lastOp.flag
    /\ upl.fields.n = "" /\ upl.fields.p = "45" /\ upl.fields.k = ""
    /\ upl.upload # <<>>

\* C21: in a preview of rows x cols zones (both positive), the cell with
\* index i sits in row floor(i / cols) and column i mod cols, so that
\* row * cols + col = i, 0 <= row < rows and 0 <= col < cols.
C21_ZoneIndexRoundTrip ==
    LET rows == gridRows(cal.form)
        cols == gridCols(cal.form)
        slots == Preview
    IN  (PreviewShown /\ rows.v > 0 /\ cols.v > 0) =>
            /\ Len(slots) = rows.v * cols.v
            /\ \A i \in 0..(rows.v * cols.v - 1) :
                  LET s == slots[i + 1]
                  IN  /\ s.row = i \div cols.v /\ s.col = i % cols.v
                      /\ s.row * cols.v + s.col = i
                      /\ 0 <= s.row /\ s.row < rows.v
                      /\ 0 <= s.col /\ s.col < cols.v

\* A preview of 2 rows and 3 columns has been typed in (1 m x 1.5 m, 0.5 m).
C21_Witness ==
    /\ lastOp.op = "handleChange"
    /\ gridRows(cal.form) = Fin(2) /\ gridCols(cal.form) = Fin(3)
    /\ Len(Preview) = 6 /\ Preview[6] = [row |-> 1, col |-> 2]

\* A text that is empty or consists of spaces only.
IsBlank(s) == \A i \in 1..Len(s) : s[i] = " "

\* C22: a submit with an empty or blank region sets the error message and
\* dispatches nothing; the form values, the submitting flag and the number
\* of POST /config calls stay as they were.
C22_BlankRegionRefused ==
    [][(lastOp'.op = "handleSubmit" /\ IsBlank(cal.form.region)) =>
          /\ ~lastOp'.flag
          /\ cal'.error = "Please enter your region/city"
          /\ cal'.form = cal.form
          /\ cal'.submitting = cal.submitting
          /\ cal'.posts = cal.posts /\ cal'.post = cal.post]_vars

\* A submit with a region of two spaces was refused.
C22_Witness ==
    /\ lastOp.op = "handleSubmit" /\ ~lastOp.flag
    /\ cal.form.region = <<" ", " ">>
    /\ cal.error = "Please enter your region/city"
    /\ cal.posts = 0 /\ ~cal.submitting

\* C23: a result on display is the analysis of the image that is selected.
C23_ResultOfSelected == dis.result # 0 => dis.result = dis.selected

\* C24: a step that applies a poll replaces the grid and the alerts with
\* the two responses of one poll whose requests both succeeded; a failed
\* poll replaces neither; and the grid is never replaced otherwise.
C24_PollAtomic ==
    [][/\ lastOp'.op = "fetchDataThen" =>
              \E i \in 1..Len(polls) :
                  /\ polls[i].grid.st = "ok" /\ polls[i].alerts.st = "ok"
                  /\ grid' = polls[i].grid.data
                  /\ alerts' = polls[i].alerts.data
                  /\ polls' = RemoveAt(polls, i)
       /\ lastOp'.op = "fetchDataCatch" => (grid' = grid /\ alerts' = alerts)
       /\ grid' # grid => lastOp'.op = "fetchDataThen"]_vars

\* A poll has been applied while an alert was active: both states are set.
C24_Witness ==
    /\ lastOp.op = "fetchDataThen"
    /\ Len(grid) > 0
    /\ Len(alerts) > 0

\* C25: one of the four guarded pages is on screen only while a
\* configuration is held and loading is over; without a configuration a
\* guarded route renders the redirect, which leads to /calibration; and
\* loading ends and stays ended, whether the fetch succeeds or fails.
C25_RouteGuard ==
    /\ [](/\ Screen \in {PageOf(path) : path \in GuardedPaths} =>
                (app.config # "" /\ ~app.loading)
          /\ (~app.loading /\ app.config = "" /\ app.path \in GuardedPaths) =>
                Screen = "Navigate"
          /\ lastOp.op = "Navigate" => app.path = "/calibration")
    /\ <>[](~app.loading)

\* The first fetch failed on a guarded route and the redirect was taken.
C25_Witness ==
    /\ lastOp.op = "Navigate"
    /\ app.config = "" /\ ~app.loading /\ app.calls = 1
    /\ Screen = "CalibrationPage"

====
